---- MODULE Spec2Model ----
(***************************************************************************)
(* Model of audalign/fingerprint.py: the Peak Extractor (get_2D_peaks)     *)
(* and the Hash Generator (generate_hashes).  Both are pure functions;     *)
(* each is an operator computed the way the code computes it, and the      *)
(* specifications below draw the inputs from bounded sets and apply them.  *)
(***************************************************************************)
EXTENDS Integers, Sequences, FiniteSets, TLC

VARIABLES
    hpc,                  \* position of the hash-generator driver
    peaks,                \* argument peaks: sequence of <<freq, time>>
    fan_value,            \* argument fan_value
    min_hash_time_delta,  \* argument min_hash_time_delta
    max_hash_time_delta,  \* argument max_hash_time_delta
    peak_sort,            \* argument peak_sort
    outcome,              \* outcome of generate_hashes(peaks, ...)
    time_shift,           \* constant added to every time index by the shifted call
    shifted_outcome,      \* outcome of generate_hashes on the shifted peaks
    ppc,                  \* position of the peak-extractor driver
    arr2D,                \* argument arr2D: rows are frequency bins, columns time frames
    heap,                 \* the doubles in memory before arr2D's buffer
    amp_min,              \* argument amp_min
    local_maxima,         \* result of get_2D_peaks(arr2D, amp_min=amp_min)
    raised_amp_min,       \* a floor not below amp_min, for the second call
    raised_maxima         \* result of get_2D_peaks(arr2D, amp_min=raised_amp_min)

hvars == <<hpc, peaks, fan_value, min_hash_time_delta, max_hash_time_delta,
           peak_sort, outcome, time_shift, shifted_outcome>>

pvars == <<ppc, arr2D, heap, amp_min, local_maxima, raised_amp_min, raised_maxima>>

vars == <<hvars, pvars>>

-----------------------------------------------------------------------------
(* Module constants of fingerprint.py *)

IDX_FREQ_I == 0
IDX_TIME_J == 1
FINGERPRINT_REDUCTION == 20
PEAK_NEIGHBORHOOD_SIZE == 20

-----------------------------------------------------------------------------
(* Bounds of the model *)

\* the longest peak sequence handed to generate_hashes
MaxPeaks == 4
\* the most non-zero cells of a magnitude grid
MaxSpikes == 2

FrequencyIndices == {0, 1}
TimeIndices == {0, 1, 2}
PeakValues == FrequencyIndices \X TimeIndices
FanValues == {-1, 0, 3, 4}
DeltaWindows == {<<1, 2>>, <<-2, 1>>, <<2, 1>>}
TimeShifts == {-1, 3}

\* <<rows, columns>> of the magnitude grids: inside one neighborhood, and
\* wider than the neighborhood's radius
GridShapes == {<<1, 1>>, <<2, 2>>, <<1, 22>>, <<2, 22>>}
Amplitudes == {-1, 1, 2}
AmpMins == {-1, 0, 1}
\* what a double before the buffer may hold: nothing, a value among the
\* amplitudes of the grids, a value above them all
StrayValues == {0, 1, 3}

RECURSIVE SeqsUpTo(_, _)
SeqsUpTo(S, n) ==
    IF n = 0 THEN {<<>>}
    ELSE LET shorter == SeqsUpTo(S, n - 1)
         IN  shorter \cup {Append(s, x) : s \in {t \in shorter : Len(t) = n - 1}, x \in S}

-----------------------------------------------------------------------------
(* Python values *)

\* peaks[i][IDX] with Python's 0-based indexing of the list and of the tuple
Item(seq, i) == seq[i + 1]
Freq(p) == Item(p, IDX_FREQ_I)
Time(p) == Item(p, IDX_TIME_J)

Abs(x) == IF x < 0 THEN -x ELSE x

\* the 8 digits after the decimal point of r/b (0 <= r < b), truncated, and
\* the remainder left after them, by long division
RECURSIVE FracDigits(_, _, _, _)
FracDigits(r, b, n, digits) ==
    IF n = 0 THEN <<digits, r>>
    ELSE FracDigits((r * 10) % b, b, n - 1, digits * 10 + ((r * 10) \div b))

\* f"{p/q:f}": the default precision of six digits, in place of eight
Format6f(p, q) ==
    LET a == Abs(p)
        b == Abs(q)
        whole == a \div b
        fd == FracDigits(a % b, b, 6, 0)
        up == \/ 2 * fd[2] > b
              \/ 2 * fd[2] = b /\ fd[1] % 2 = 1
        frac == IF up THEN fd[1] + 1 ELSE fd[1]
    IN  [minus |-> (p < 0) # (q < 0),
         whole |-> IF frac = 1000000 THEN whole + 1 ELSE whole,
         frac  |-> IF frac = 1000000 THEN 0 ELSE frac]

\* the number of binary digits of w >= 0
RECURSIVE BitLen(_)
BitLen(w) == IF w = 0 THEN 0 ELSE 1 + BitLen(w \div 2)

\* the zero bits that open the binary fraction r/b (0 < r < b)
RECURSIVE LeadingZeros(_, _)
LeadingZeros(r, b) ==
    IF r >= b - r THEN 0 ELSE 1 + LeadingZeros(r + r, b)

\* the first n binary digits of the fraction r/b (0 <= r < b), fewer when
\* the division ends before, and the remainder left: long division, the
\* digits of the first half and then those of the rest (2 * r is compared
\* and formed without overflow)
RECURSIVE QuotientBits(_, _, _)
QuotientBits(r, b, n) ==
    IF r = 0 \/ n = 0 THEN [bits |-> <<>>, rem |-> r]
    ELSE IF n = 1
         THEN IF r >= b - r THEN [bits |-> <<1>>, rem |-> r - (b - r)]
              ELSE [bits |-> <<0>>, rem |-> r + r]
    ELSE LET head == QuotientBits(r, b, n \div 2)
             tail == QuotientBits(head.rem, b, n - n \div 2)
         IN  [bits |-> head.bits \o tail.bits, rem |-> tail.rem]

\* one unit added in the last place of a binary fraction: <<bits, carry out>>
Increment(bits) ==
    LET zeros == {i \in 1..Len(bits) : bits[i] = 0}
        z == CHOOSE i \in zeros : \A j \in zeros : j <= i
    IN  IF zeros = {} THEN <<[i \in 1..Len(bits) |-> 0], 1>>
        ELSE <<[i \in 1..Len(bits) |->
                   IF i < z THEN bits[i] ELSE IF i = z THEN 1 ELSE 0], 0>>

\* the double nearest a/b (a >= 0, b > 0), as Python's true division of two
\* ints returns it: its whole part and the binary digits of its fraction.
\* The significand has 53 bits counted from the first one bit of the
\* quotient, rounded to nearest, ties to even
NearestDouble(a, b) ==
    LET w == a \div b
        n == IF w > 0 THEN 53 - BitLen(w)
             ELSE IF a = 0 THEN 0 ELSE LeadingZeros(a, b) + 53
        g == QuotientBits(a % b, b, n)
        last == g.bits[Len(g.bits)]
        up == g.rem # 0 /\ (g.rem > b - g.rem \/ (g.rem = b - g.rem /\ last = 1))
        inc == Increment(g.bits)
    IN  IF up THEN [whole |-> w + inc[2], bits |-> inc[1]]
        ELSE [whole |-> w, bits |-> g.bits]

\* the number written by bits i..j of a binary fraction, zeros after its end
RECURSIVE BitsValue(_, _, _)
BitsValue(bits, i, j) ==
    IF j < i THEN 0
    ELSE 2 * BitsValue(bits, i, j - 1) + (IF j <= Len(bits) THEN bits[j] ELSE 0)

\* a binary fraction in groups of 16 bits, each group a number below 65536
Limbs(bits) ==
    <<>> @@ [k \in 1..((Len(bits) + 15) \div 16) |->
                 BitsValue(bits, 16 * (k - 1) + 1, 16 * k)]

\* a fraction in groups of 16 bits times ten, from its last group i to its
\* first: <<the fraction left, the digit carried out>>
RECURSIVE TimesTen(_, _, _)
TimesTen(limbs, i, carry) ==
    IF i = 0 THEN <<limbs, carry>>
    ELSE TimesTen([limbs EXCEPT ![i] = (10 * limbs[i] + carry) % 65536], i - 1,
                  (10 * limbs[i] + carry) \div 65536)

\* the first n decimal digits of such a fraction and the fraction left
RECURSIVE DecimalDigits(_, _, _)
DecimalDigits(limbs, n, digits) ==
    IF n = 0 THEN <<digits, limbs>>
    ELSE LET t == TimesTen(limbs, Len(limbs), 0)
         IN  DecimalDigits(t[1], n - 1, digits * 10 + t[2])

\* "%.8f" of a double: the 8 digits after the point, correctly rounded from
\* the double's exact value, a value halfway going to the even digit
DoubleFormat8f(d) ==
    LET dd == DecimalDigits(Limbs(d.bits), 8, 0)
        rest == dd[2]
        half == rest # <<>> /\ rest[1] >= 32768
        more == half /\ (rest[1] > 32768 \/ \E k \in 2..Len(rest) : rest[k] # 0)
        up == half /\ (more \/ dd[1] % 2 = 1)
        frac == IF up THEN dd[1] + 1 ELSE dd[1]
    IN  [whole |-> IF frac = 100000000 THEN d.whole + 1 ELSE d.whole,
         frac  |-> IF frac = 100000000 THEN 0 ELSE frac]

\* f"{p/q:.8f}" for integers p, q with q # 0: the sign Python prints (a zero
\* or a tiny quotient of a negative divisor prints as "-0.00000000"), the
\* digits before the point, and the 8 digits after it.  The division is
\* done in binary floating point and the double is printed correctly
\* rounded, so the double's own rounding error shows where the quotient is
\* at, or within that error of, the middle between two 8-digit decimals
\* (1/2560 prints as 0.00039063, 3/2560 as 0.00117187, 1/512 as 0.00195312,
\* 337398293/138026213 as 2.44445084).  When 2 * 10^8 * |p| < 2^53 and the
\* quotient is off the middle, the error is too small to move a digit, and
\* the digits are those of the exact quotient rounded to nearest.
Format8f(p, q) ==
    LET a == Abs(p)
        b == Abs(q)
        fd == FracDigits(a % b, b, 8, 0)
        exact == [whole |-> a \div b, frac |-> fd[1]]
        exactUp == IF fd[1] + 1 = 100000000
                   THEN [whole |-> (a \div b) + 1, frac |-> 0]
                   ELSE [whole |-> a \div b, frac |-> fd[1] + 1]
        r == IF a < 45035997 /\ b <= 200000000 /\ fd[2] # b - fd[2]
             THEN IF fd[2] > b - fd[2] THEN exactUp ELSE exact
             ELSE DoubleFormat8f(NearestDouble(a, b))
    IN  [minus |-> (p < 0) # (q < 0), whole |-> r.whole, frac |-> r.frac]

\* the ratio taken of the second peak's time, not of its distance to the anchor
FeatureStringAbsolute(freq1, freq2, freq3, t1, t2, t3) ==
    <<freq1 - freq2, freq2 - freq3, Format8f(t2, t3 - t1)>>

\* f"{freq1-freq2}|{freq2-freq3}|{(t2-t1)/(t3-t1):.8f}"
FeatureString(freq1, freq2, freq3, t1, t2, t3) ==
    <<freq1 - freq2, freq2 - freq3, Format8f(t2 - t1, t3 - t1)>>

\* hashlib.sha1(s.encode("utf-8")).hexdigest()[0:FINGERPRINT_REDUCTION]: the
\* digest is kept symbolic, one key of FINGERPRINT_REDUCTION hexadecimal
\* characters per feature string
Sha1Prefix(s) == [sha1 |-> s, hexdigits |-> FINGERPRINT_REDUCTION]

-----------------------------------------------------------------------------
(* generate_hashes *)

\* a Python dict: a function from its keys
EmptyDict == <<>>

\* if h not in hash_dict: hash_dict[h] = [int(t1)] else: hash_dict[h] += [int(t1)]
DictAppend(d, h, t1) ==
    IF h \in DOMAIN d THEN [d EXCEPT ![h] = Append(@, t1)]
    ELSE [x \in (DOMAIN d) \cup {h} |-> IF x = h THEN <<t1>> ELSE d[x]]

\* an unstable sort: a peak goes in front of the peaks of equal time index
InsertBeforeEqual(s, p) ==
    LET n == Cardinality({q \in 1..Len(s) : Time(s[q]) < Time(p)})
    IN  SubSeq(s, 1, n) \o <<p>> \o SubSeq(s, n + 1, Len(s))

\* sorted(peaks, key=lambda x: x[1]) adds one peak at a time, after every
\* peak whose time index is not greater: the sort is stable
InsertByTime(s, p) ==
    LET n == Cardinality({q \in 1..Len(s) : Time(s[q]) <= Time(p)})
    IN  SubSeq(s, 1, n) \o <<p>> \o SubSeq(s, n + 1, Len(s))

RECURSIVE SortedByTime(_)
SortedByTime(s) ==
    IF s = <<>> THEN <<>>
    ELSE InsertByTime(SortedByTime(SubSeq(s, 1, Len(s) - 1)), s[Len(s)])

\* peaks = list(peaks); if peak_sort: peaks = sorted(peaks, key=lambda x: x[1])
PeakList(ps, sort) == IF sort THEN SortedByTime(ps) ELSE ps

\* the two comparisons joined by "or"
InWindowEither(t_delta, mn, mx) == t_delta >= mn \/ t_delta <= mx

\* t_delta >= min_hash_time_delta and t_delta <= max_hash_time_delta
InWindow(t_delta, mn, mx) == t_delta >= mn /\ t_delta <= mx

\* the body without the check of t3 - t1 against the window
TripleBodyUnchecked13(acc, S, i, j, k, mn, mx) ==
    IF acc.raised \/ ~(i + k < Len(S)) THEN acc
    ELSE LET freq1 == Freq(Item(S, i))
             t1 == Time(Item(S, i))
             freq2 == Freq(Item(S, i + j))
             t2 == Time(Item(S, i + j))
             freq3 == Freq(Item(S, i + k))
             t3 == Time(Item(S, i + k))
         IN  IF ~InWindow(t2 - t1, mn, mx) THEN acc
             ELSE IF t3 - t1 = 0 THEN [acc EXCEPT !.raised = TRUE]
             ELSE [acc EXCEPT !.hash_dict =
                      DictAppend(@, Sha1Prefix(FeatureString(freq1, freq2, freq3, t1, t2, t3)), t1)]

\* the body of the innermost loop, lines 184-212, on the accumulator
\* [raised, hash_dict]: raised is set when the division raises
\* ZeroDivisionError, and hash_dict is then the dictionary built so far
TripleBody(acc, S, i, j, k, mn, mx) ==
    IF acc.raised \/ ~(i + k < Len(S)) THEN acc
    ELSE LET freq1 == Freq(Item(S, i))
             t1 == Time(Item(S, i))
             freq2 == Freq(Item(S, i + j))
             t2 == Time(Item(S, i + j))
             freq3 == Freq(Item(S, i + k))
             t3 == Time(Item(S, i + k))
         IN  IF ~InWindow(t3 - t1, mn, mx) THEN acc
             ELSE IF ~InWindow(t2 - t1, mn, mx) THEN acc
             ELSE IF t3 - t1 = 0 THEN [acc EXCEPT !.raised = TRUE]
             ELSE [acc EXCEPT !.hash_dict =
                      DictAppend(@, Sha1Prefix(FeatureString(freq1, freq2, freq3, t1, t2, t3)), t1)]

\* for k in range(j + 1, fan_value)
RECURSIVE LoopK(_, _, _, _, _, _, _, _)
LoopK(acc, S, i, j, k, fan, mn, mx) ==
    IF k >= fan \/ acc.raised THEN acc
    ELSE LoopK(TripleBody(acc, S, i, j, k, mn, mx), S, i, j, k + 1, fan, mn, mx)

\* the inner loop started at k = j: for k in range(j, fan_value)
RECURSIVE LoopJFromJ(_, _, _, _, _, _, _)
LoopJFromJ(acc, S, i, j, fan, mn, mx) ==
    IF j >= fan - 1 \/ acc.raised THEN acc
    ELSE LoopJFromJ(IF i + j < Len(S) THEN LoopK(acc, S, i, j, j, fan, mn, mx) ELSE acc,
                    S, i, j + 1, fan, mn, mx)

\* for j in range(1, fan_value - 1): if i + j < len(peaks)
RECURSIVE LoopJ(_, _, _, _, _, _, _)
LoopJ(acc, S, i, j, fan, mn, mx) ==
    IF j >= fan - 1 \/ acc.raised THEN acc
    ELSE LoopJ(IF i + j < Len(S) THEN LoopK(acc, S, i, j, j + 1, fan, mn, mx) ELSE acc,
               S, i, j + 1, fan, mn, mx)

\* for i in range(0, len(peaks), 1)
RECURSIVE LoopI(_, _, _, _, _, _)
LoopI(acc, S, i, fan, mn, mx) ==
    IF i >= Len(S) \/ acc.raised THEN acc
    ELSE LoopI(LoopJ(acc, S, i, 1, fan, mn, mx), S, i + 1, fan, mn, mx)

\* generate_hashes(peaks, fan_value, min_hash_time_delta, max_hash_time_delta,
\* peak_sort): [raised |-> FALSE, hash_dict |-> the dictionary returned], or
\* raised = TRUE when the call ends in ZeroDivisionError
generate_hashes(ps, fan, mn, mx, sort) ==
    LoopI([raised |-> FALSE, hash_dict |-> EmptyDict], PeakList(ps, sort), 0, fan, mn, mx)

-----------------------------------------------------------------------------
(* get_2D_peaks *)

\* generate_binary_structure(2, 1): the offsets of the 3x3 cross
generate_binary_structure == {<<0, 0>>, <<-1, 0>>, <<1, 0>>, <<0, -1>>, <<0, 1>>}

\* binary dilation of a set of offsets by a structure
Dilate(A, B) == {<<a[1] + b[1], a[2] + b[2]>> : a \in A, b \in B}

\* iterate_structure(structure, iterations): the structure itself when
\* iterations < 2, else the structure dilated iterations - 1 times by itself
RECURSIVE DilateTimes(_, _, _)
DilateTimes(A, B, n) == IF n = 0 THEN A ELSE DilateTimes(Dilate(A, B), B, n - 1)

\* one dilation short
iterate_structure_short(structure, iterations) ==
    IF iterations < 2 THEN structure
    ELSE DilateTimes(structure, structure, iterations - 2)

iterate_structure(structure, iterations) ==
    IF iterations < 2 THEN structure
    ELSE DilateTimes(structure, structure, iterations - 1)

\* line 123
neighborhood == iterate_structure(generate_binary_structure, PEAK_NEIGHBORHOOD_SIZE)

Rows(a) == Len(a)
Cols(a) == Len(a[1])
Shape(a) == <<Rows(a), Cols(a)>>
Cells(shape) == (0..(shape[1] - 1)) \X (0..(shape[2] - 1))
At(a, cell) == a[cell[1] + 1][cell[2] + 1]
InGrid(shape, r, c) == r \in 0..(shape[1] - 1) /\ c \in 0..(shape[2] - 1)

\* the index along an axis of length len that maximum_filter reads for
\* coordinate cc under its default mode "reflect" (d c b a | a b c d |
\* d c b a), as scipy's filter-offset routine computes it: a coordinate
\* below -2 * len is first brought up by whole periods of 2 * len, and one
\* that was a whole number of periods below 0 then leaves as -1, an index
\* before the axis
ReflectIndex(cc, len) ==
    LET sz2 == 2 * len
        up == IF cc < -sz2 THEN cc + sz2 * ((-cc) \div sz2) ELSE cc
        down == cc - sz2 * (cc \div sz2)
    IN  IF cc < 0
        THEN IF len <= 1 THEN 0
             ELSE IF up < -len THEN up + sz2 ELSE -up - 1
        ELSE IF cc >= len
        THEN IF len <= 1 THEN 0
             ELSE IF down >= len THEN sz2 - down - 1 ELSE down
        ELSE cc

\* a function as an explicit table, computed once
Table(f) == <<>> @@ f

\* the elements maximum_filter(arr2D, footprint=neighborhood) reads for each
\* cell of a grid of the given shape, as offsets from arr2D[0][0] in a
\* C-contiguous array (row * columns + column): an index of -1 along an
\* axis reads the element before it in memory, which is another element of
\* the array or, at a negative offset, a double before the buffer
FootprintReads ==
    Table([shape \in GridShapes |->
        Table([cell \in Cells(shape) |->
            {ReflectIndex(cell[1] + o[1], shape[1]) * shape[2]
               + ReflectIndex(cell[2] + o[2], shape[2]) : o \in neighborhood}])])

\* the number of doubles before the buffer that maximum_filter reads for
\* some cell of a grid of the given shape
WordsBefore ==
    Table([shape \in GridShapes |->
        LET out == {-n : n \in {m \in UNION {FootprintReads[shape][cell] :
                                               cell \in Cells(shape)} : m < 0}}
        IN  IF out = {} THEN 0 ELSE CHOOSE k \in out : \A j \in out : j <= k])

\* the double at an offset from arr2D[0][0]; mem[k] is the one k places
\* before the buffer
ReadAt(a, mem, n) ==
    IF n >= 0 THEN At(a, <<n \div Cols(a), n % Cols(a)>>) ELSE mem[-n]

\* the memory maximum_filter reads from, by offset from arr2D[0][0]
Buffer(a, mem) ==
    Table([n \in (-Len(mem))..(Rows(a) * Cols(a) - 1) |-> ReadAt(a, mem, n)])

\* binary_erosion(..., structure=neighborhood): the grid cells under the
\* structure centred on each cell, and whether the structure sticks out of
\* the grid there
ErosionCells ==
    Table([shape \in GridShapes |->
        Table([cell \in Cells(shape) |->
            [inside |-> {c \in Cells(shape) :
                            <<c[1] - cell[1], c[2] - cell[2]>> \in neighborhood},
             border |-> \E o \in neighborhood :
                            ~InGrid(shape, cell[1] + o[1], cell[2] + o[2])]])])

SetMax(S) == CHOOSE x \in S : \A y \in S : y <= x

\* maximum_filter(arr2D, footprint=neighborhood) at one cell
MaximumFilterAt(a, buf, cell) ==
    SetMax({buf[n] : n \in FootprintReads[Shape(a)][cell]})

\* local_max = maximum_filter(arr2D, footprint=neighborhood) == arr2D
LocalMax(a, buf, cell) == MaximumFilterAt(a, buf, cell) = At(a, cell)

\* background = arr2D == 0
Background(a, cell) == At(a, cell) = 0

\* binary_erosion(background, structure=neighborhood, border_value=...) at one
\* cell: every cell under the structure is set, cells off the grid counting
\* as border_value
BinaryErosionAt(a, cell, border_value) ==
    LET e == ErosionCells[Shape(a)][cell]
    IN  /\ \A c \in e.inside : Background(a, c)
        /\ e.border => border_value

\* eroded_background, lines 128-130: border_value=1
ErodedBackground(a, cell) == BinaryErosionAt(a, cell, TRUE)

\* detected_peaks = local_max ^ eroded_background
DetectedPeak(a, buf, cell) == LocalMax(a, buf, cell) # ErodedBackground(a, cell)

\* the comparison turned round
BelowFloor(amp, floor) == amp < floor

\* filter(lambda x: x[2] > amp_min, peaks)
AboveFloor(amp, floor) == amp > floor

\* the cells of the grid in the order np.where and boolean indexing scan
\* them: row by row
ScanOrder(shape) ==
    [n \in 1..(shape[1] * shape[2]) |-> <<(n - 1) \div shape[2], (n - 1) % shape[2]>>]

\* get_2D_peaks(arr2D, amp_min=floor), with mem the doubles before the
\* buffer of arr2D: the sequence of <<frequency_idx, time_idx>> the
\* returned zip yields
get_2D_peaks(a, mem, floor) ==
    LET buf == Buffer(a, mem)
    IN  SelectSeq(ScanOrder(Shape(a)),
                  LAMBDA cell : DetectedPeak(a, buf, cell) /\ AboveFloor(At(a, cell), floor))

-----------------------------------------------------------------------------
(* The caller of generate_hashes *)

NoOutcome == [raised |-> FALSE, hash_dict |-> EmptyDict]

ShiftPeaks(ps, c) == [n \in 1..Len(ps) |-> <<Freq(ps[n]), Time(ps[n]) + c>>]

\* the three-peak scenario with the module's default parameters
ScenarioPeaks == <<<<10, 0>>, <<8, 15>>, <<5, 30>>>>

InitBounded ==
    /\ peaks \in SeqsUpTo(PeakValues, MaxPeaks)
    /\ fan_value \in FanValues
    /\ \E w \in DeltaWindows : min_hash_time_delta = w[1] /\ max_hash_time_delta = w[2]
    /\ peak_sort \in BOOLEAN

InitScenario ==
    /\ peaks = ScenarioPeaks
    /\ fan_value = 15
    /\ min_hash_time_delta = 10
    /\ max_hash_time_delta = 200
    /\ peak_sort \in BOOLEAN

ZeroGrid(shape) == [r \in 1..shape[1] |-> [c \in 1..shape[2] |-> 0]]

\* the cells of the first two and the last three columns
SpikeCells(shape) ==
    {cell \in Cells(shape) : cell[2] <= 1 \/ cell[2] >= shape[2] - 3}

\* the grid with the cells of the set given the amplitudes of the function
WithSpikes(shape, amps) ==
    [r \in 1..shape[1] |-> [c \in 1..shape[2] |->
        IF <<r - 1, c - 1>> \in DOMAIN amps THEN amps[<<r - 1, c - 1>>] ELSE 0]]

\* what the n doubles before a buffer may hold: the nearest any value, the
\* others that value too or all 0
Memories(n) ==
    UNION {{Table([k \in 1..n |-> IF k = 1 THEN v ELSE w]) : w \in {0, v}} :
              v \in StrayValues}

Grids ==
    UNION {{WithSpikes(shape, amps) :
              amps \in UNION {[cs -> Amplitudes] :
                         cs \in {x \in SUBSET SpikeCells(shape) : Cardinality(x) <= MaxSpikes}}} :
           shape \in GridShapes}

HashIdle ==
    /\ hpc = "idle"
    /\ peaks = <<>>
    /\ fan_value = 0
    /\ min_hash_time_delta = 0
    /\ max_hash_time_delta = 0
    /\ peak_sort = FALSE
    /\ outcome = NoOutcome
    /\ time_shift = 0
    /\ shifted_outcome = NoOutcome

PeaksIdle ==
    /\ ppc = "idle"
    /\ arr2D = <<>>
    /\ heap = <<>>
    /\ amp_min = 0
    /\ local_maxima = <<>>
    /\ raised_amp_min = 0
    /\ raised_maxima = <<>>

\* peak sequences whose ratios 1/2560, 3/2560 and 1/512 lie halfway between
\* two 8-digit decimals
LongGapPeaks ==
    {<<<<0, 0>>, <<0, 1>>, <<0, 2560>>>>,
     <<<<4, 10>>, <<1, 13>>, <<7, 2570>>>>,
     <<<<0, 0>>, <<1, 1>>, <<0, 512>>, <<1, 2560>>>>}

InitLongGap ==
    /\ peaks \in LongGapPeaks
    /\ fan_value \in {3, 4}
    /\ min_hash_time_delta = 1
    /\ max_hash_time_delta = 3000
    /\ peak_sort \in BOOLEAN

HashInit ==
    /\ hpc = "call"
    /\ InitBounded \/ InitScenario \/ InitLongGap
    /\ outcome = NoOutcome
    /\ time_shift = 0
    /\ shifted_outcome = NoOutcome
    /\ PeaksIdle

GenerateHashes ==
    /\ hpc = "call"
    /\ outcome' = generate_hashes(peaks, fan_value, min_hash_time_delta,
                                  max_hash_time_delta, peak_sort)
    /\ hpc' = "returned"
    /\ UNCHANGED <<peaks, fan_value, min_hash_time_delta, max_hash_time_delta,
                   peak_sort, time_shift, shifted_outcome>>
    /\ UNCHANGED pvars

GenerateHashesShifted ==
    /\ hpc = "returned"
    /\ \E c \in TimeShifts :
          /\ time_shift' = c
          /\ shifted_outcome' = generate_hashes(ShiftPeaks(peaks, c), fan_value,
                                   min_hash_time_delta, max_hash_time_delta, peak_sort)
    /\ hpc' = "shifted"
    /\ UNCHANGED <<peaks, fan_value, min_hash_time_delta, max_hash_time_delta,
                   peak_sort, outcome>>
    /\ UNCHANGED pvars

HashNext == GenerateHashes \/ GenerateHashesShifted

SpecHash == HashInit /\ [][HashNext]_vars

-----------------------------------------------------------------------------
(* The caller of get_2D_peaks *)

PeaksInit ==
    /\ ppc = "call"
    /\ arr2D \in Grids
    /\ heap \in Memories(WordsBefore[Shape(arr2D)])
    /\ amp_min \in AmpMins
    /\ local_maxima = <<>>
    /\ raised_amp_min = amp_min
    /\ raised_maxima = <<>>
    /\ HashIdle

Get2DPeaks ==
    /\ ppc = "call"
    /\ local_maxima' = get_2D_peaks(arr2D, heap, amp_min)
    /\ ppc' = "returned"
    /\ UNCHANGED <<arr2D, heap, amp_min, raised_amp_min, raised_maxima>>
    /\ UNCHANGED hvars

Get2DPeaksRaisedFloor ==
    /\ ppc = "returned"
    /\ \E a2 \in AmpMins :
          /\ a2 >= amp_min
          /\ raised_amp_min' = a2
          /\ raised_maxima' = get_2D_peaks(arr2D, heap, a2)
    /\ ppc' = "raised"
    /\ UNCHANGED <<arr2D, heap, amp_min, local_maxima>>
    /\ UNCHANGED hvars

PeaksNext == Get2DPeaks \/ Get2DPeaksRaisedFloor

SpecPeaks == PeaksInit /\ [][PeaksNext]_vars

-----------------------------------------------------------------------------
(* Reference definitions for the properties of generate_hashes *)

Returned == hpc # "call"

\* the list generate_hashes iterates over, stated by rank: a peak moves behind
\* the peaks of smaller time index and behind the earlier peaks of equal time
StableRank(ps, n) ==
    Cardinality({m \in 1..Len(ps) : \/ Time(ps[m]) < Time(ps[n])
                                    \/ Time(ps[m]) = Time(ps[n]) /\ m < n}) + 1

StablySorted(ps) ==
    [r \in 1..Len(ps) |-> ps[CHOOSE n \in 1..Len(ps) : StableRank(ps, n) = r]]

Visited == IF peak_sort THEN StablySorted(peaks) ELSE peaks

\* the offsets <<i, j, k>> the three loops visit
Triples(S, fan) ==
    {tr \in (0..(Len(S) - 1)) \X (1..(fan - 2)) \X (2..(fan - 1)) :
        tr[2] < tr[3] /\ tr[1] + tr[3] < Len(S)}

T1(S, tr) == Time(Item(S, tr[1]))
T2(S, tr) == Time(Item(S, tr[1] + tr[2]))
T3(S, tr) == Time(Item(S, tr[1] + tr[3]))

Delta12Ok(S, tr) ==
    /\ min_hash_time_delta <= T2(S, tr) - T1(S, tr)
    /\ T2(S, tr) - T1(S, tr) <= max_hash_time_delta

Delta13Ok(S, tr) ==
    /\ min_hash_time_delta <= T3(S, tr) - T1(S, tr)
    /\ T3(S, tr) - T1(S, tr) <= max_hash_time_delta

Qualifying(S, fan) == {tr \in Triples(S, fan) : Delta12Ok(S, tr) /\ Delta13Ok(S, tr)}

\* the qualifying triples whose ratio is defined
Hashable(S, fan) == {tr \in Qualifying(S, fan) : T3(S, tr) # T1(S, tr)}

KeyOf(S, tr) ==
    Sha1Prefix(FeatureString(Freq(Item(S, tr[1])), Freq(Item(S, tr[1] + tr[2])),
                             Freq(Item(S, tr[1] + tr[3])),
                             T1(S, tr), T2(S, tr), T3(S, tr)))

LexLess(a, b) ==
    \/ a[1] < b[1]
    \/ a[1] = b[1] /\ a[2] < b[2]
    \/ a[1] = b[1] /\ a[2] = b[2] /\ a[3] < b[3]

\* the anchor times of the triples of Q, in lexicographic order of <<i, j, k>>
AnchorTimes(S, Q) ==
    [n \in 1..Cardinality(Q) |->
        T1(S, CHOOSE tr \in Q : Cardinality({u \in Q : LexLess(u, tr)}) = n - 1)]

\* the map built from the hashable triples in lexicographic order
ReferenceMap(S, fan) ==
    LET H == Hashable(S, fan)
    IN  [h \in {KeyOf(S, tr) : tr \in H} |->
            AnchorTimes(S, {tr \in H : KeyOf(S, tr) = h})]

RECURSIVE SumLens(_, _)
SumLens(d, keys) ==
    IF keys = {} THEN 0
    ELSE LET h == CHOOSE x \in keys : TRUE
         IN  Len(d[h]) + SumLens(d, keys \ {h})

TotalEntries(d) == SumLens(d, DOMAIN d)

Occurrences(list, t) == Cardinality({n \in 1..Len(list) : list[n] = t})

ShiftDict(d, c) == [h \in DOMAIN d |-> [n \in 1..Len(d[h]) |-> d[h][n] + c]]

-----------------------------------------------------------------------------
(* Properties of generate_hashes *)

\* C1: delta-window exclusion.  Every time offset appended to the map (also
\* to the map of a call that later raises) is accounted for by its own triple
\* (i, i+j, i+k) with the entry's key and anchor time whose two deltas t2 - t1
\* and t3 - t1 both lie in [min_delta, max_delta]; triples outside the window
\* account for no entry.
C1_DeltaWindowExclusion ==
    Returned =>
        LET d == outcome.hash_dict
            S == Visited
            H == Hashable(S, fan_value)
        IN  \A h \in DOMAIN d : \A n \in 1..Len(d[h]) :
                Occurrences(d[h], d[h][n]) <=
                    Cardinality({tr \in H : KeyOf(S, tr) = h /\ T1(S, tr) = d[h][n]})

\* C1 witness: a call that appended an entry although one of its triples has
\* t2 - t1 inside the window and t3 - t1 outside it.
C1_Witness ==
    /\ hpc = "returned"
    /\ DOMAIN outcome.hash_dict # {}
    /\ \E tr \in Triples(Visited, fan_value) :
          Delta12Ok(Visited, tr) /\ ~Delta13Ok(Visited, tr)

\* C2: time-shift invariance.  The call on the peaks with time_shift added to
\* every time index ends like the call on the peaks: the same keys, and under
\* each key the same list with time_shift added to every element, in order.
C2_ShiftInvariance ==
    hpc = "shifted" =>
        /\ shifted_outcome.raised = outcome.raised
        /\ DOMAIN shifted_outcome.hash_dict = DOMAIN outcome.hash_dict
        /\ shifted_outcome.hash_dict = ShiftDict(outcome.hash_dict, time_shift)

\* C2 witness: a shifted call whose map has a list of two entries and a second key.
C2_Witness ==
    /\ hpc = "shifted"
    /\ time_shift # 0
    /\ ~outcome.raised
    /\ Cardinality(DOMAIN outcome.hash_dict) >= 2
    /\ \E h \in DOMAIN outcome.hash_dict : Len(outcome.hash_dict[h]) >= 2

ScenarioCall ==
    /\ Returned
    /\ peaks = ScenarioPeaks
    /\ fan_value = 15
    /\ min_hash_time_delta = 10
    /\ max_hash_time_delta = 200

\* the key of the feature string "2|3|0.50000000"
ScenarioKey == Sha1Prefix(<<2, 3, [minus |-> FALSE, whole |-> 0, frac |-> 50000000]>>)

\* C3: the three-peak scenario (10,0), (8,15), (5,30) with fan_value 15 and
\* window [10, 200] returns exactly one key, the digest prefix of
\* "2|3|0.50000000", mapped to the list [0].
C3_ThreePeakScenario ==
    ScenarioCall =>
        /\ ~outcome.raised
        /\ DOMAIN outcome.hash_dict = {ScenarioKey}
        /\ outcome.hash_dict[ScenarioKey] = <<0>>

\* C3 witness: the scenario call has returned.
C3_Witness == ScenarioCall /\ hpc = "returned" /\ peak_sort

InvalidConfiguration == min_hash_time_delta > max_hash_time_delta \/ fan_value <= 0

\* C4 as stated: a call with min_delta > max_delta or a non-positive fan_value
\* ends in an error and returns no map.
C4_InvalidConfigurationRaises ==
    (Returned /\ InvalidConfiguration) => outcome.raised

\* C4 amended: a call with min_delta > max_delta or a non-positive fan_value
\* is not rejected; it runs to completion and returns the empty map.
C4_InvalidConfigurationReturnsEmpty ==
    (Returned /\ InvalidConfiguration) =>
        outcome = [raised |-> FALSE, hash_dict |-> EmptyDict]

\* C4 witness: a call with min_delta > max_delta on peaks that form triples
\* under the fan value has returned.
C4_Witness ==
    /\ hpc = "returned"
    /\ min_hash_time_delta > max_hash_time_delta
    /\ Triples(Visited, fan_value) # {}

\* C7: a peak sequence with fewer than three peaks (the empty one included)
\* yields the empty map, whatever the parameters, and no error.
C7_ShortInputEmptyMap ==
    (Returned /\ Len(peaks) < 3) =>
        outcome = [raised |-> FALSE, hash_dict |-> EmptyDict]

\* C7 witness: a call on two peaks whose delta is inside the window, with a
\* fan value that reaches the second peak, has returned.
C7_Witness ==
    /\ hpc = "returned"
    /\ Len(peaks) = 2
    /\ fan_value >= 3
    /\ min_hash_time_delta <= Time(Visited[2]) - Time(Visited[1])
    /\ Time(Visited[2]) - Time(Visited[1]) <= max_hash_time_delta

\* C8: triple enumeration and discovery order.  The map a call returns is the
\* one built by visiting the triples <<i, j, k>> of the (stably sorted, or
\* unchanged) sequence in lexicographic order and appending the anchor time
\* of each triple that passes both delta checks under the key of its feature;
\* the lists hold as many entries as there are qualifying triples, and each
\* anchor accounts for at most (fan_value-1)(fan_value-2)/2 of them.
C8_TripleEnumeration ==
    (Returned /\ ~outcome.raised) =>
        LET d == outcome.hash_dict
            S == Visited
            Q == Qualifying(S, fan_value)
        IN  /\ d = ReferenceMap(S, fan_value)
            /\ TotalEntries(d) = Cardinality(Q)
            /\ \A i \in 0..(Len(S) - 1) :
                  2 * Cardinality({tr \in Q : tr[1] = i}) <= (fan_value - 1) * (fan_value - 2)

\* C8 witness: a returned map holding a list of two entries found in
\* decreasing time order under one key, and a second key.
C8_Witness ==
    /\ hpc = "returned"
    /\ ~outcome.raised
    /\ Cardinality(DOMAIN outcome.hash_dict) >= 2
    /\ \E h \in DOMAIN outcome.hash_dict :
          Len(outcome.hash_dict[h]) >= 2 /\ outcome.hash_dict[h][1] > outcome.hash_dict[h][2]

\* C10 as stated: with fan_value >= 1 and min_delta <= max_delta every call
\* runs to completion and returns a map, the ratio being defined for every
\* triple that passes both delta checks.
C10_NoErrorConditions ==
    (Returned /\ fan_value >= 1 /\ min_hash_time_delta <= max_hash_time_delta) =>
        ~outcome.raised

-----------------------------------------------------------------------------
(* Reference definitions for the properties of get_2D_peaks *)

Extracted == ppc # "call"

Range(seq) == {seq[n] : n \in 1..Len(seq)}

\* the cells of the grid within the structuring neighborhood of a cell: the
\* diamond of radius PEAK_NEIGHBORHOOD_SIZE
Near(a, cell) ==
    {c \in Cells(Shape(a)) :
        Abs(c[1] - cell[1]) + Abs(c[2] - cell[2]) <= PEAK_NEIGHBORHOOD_SIZE}

GridMax(a) == SetMax({At(a, c) : c \in Cells(Shape(a))})

-----------------------------------------------------------------------------
(* Properties of get_2D_peaks *)

\* C5: background suppression.  On a grid whose cells are all 0, of any
\* shape, every cell is a local maximum and lies in the eroded background,
\* and get_2D_peaks returns no peak for any amp_min, negative ones included.
\* It fails on a grid of two rows: the maximum filter reads a double before
\* the buffer, and where that is positive the cell is no local maximum, the
\* XOR keeps it, and a negative amp_min lets it out.
C5_BackgroundSuppression ==
    (Extracted /\ arr2D = ZeroGrid(Shape(arr2D))) =>
        /\ \A cell \in Cells(Shape(arr2D)) :
              LocalMax(arr2D, Buffer(arr2D, heap), cell) /\ ErodedBackground(arr2D, cell)
        /\ local_maxima = <<>>
        /\ ppc = "raised" => raised_maxima = <<>>

C9_PeakInvariant ==
    Extracted =>
        \A p \in Range(local_maxima) :
            /\ p \in Cells(Shape(arr2D))
            /\ At(arr2D, p) > amp_min
            /\ \A c \in Near(arr2D, p) : At(arr2D, c) <= At(arr2D, p)

\* C9 witness: on a grid wider than the neighborhood, get_2D_peaks has
\* emitted a peak of amplitude 0 next to the border and a peak that is not
\* the grid's maximum.
C9_Witness ==
    /\ ppc = "returned"
    /\ Cols(arr2D) > PEAK_NEIGHBORHOOD_SIZE
    /\ \E p \in Range(local_maxima) : At(arr2D, p) = 0 /\ p[2] = 0
    /\ \E p \in Range(local_maxima) : At(arr2D, p) < GridMax(arr2D)

====
